---- MODULE Spec2Model ----
(***************************************************************************)
(* uo2ics: conversion of a uOttawa class-schedule HTML export into an      *)
(* iCalendar file.  The module models                                      *)
(*   - the cell micro-grammars of src/src/course.rs (Status, Section,      *)
(*     Component, parse_time, DateTimeRangeRaw::from_str, location split), *)
(*   - the anchoring of a raw weekday/time pair to a date in the zone      *)
(*     America/Toronto (into_datetime_range),                              *)
(*   - the run of the command line tool: parse_from_file, create_calendar  *)
(*     and the write of the output (crates/cli/src/main.rs).               *)
(*                                                                         *)
(* Text is a sequence of one-character strings.  A date-time in the zone   *)
(* (chrono's DateTime<Tz>) is its instant: minutes since                   *)
(* 2024-01-01T00:00Z, a Monday; local clock readings are derived from the  *)
(* instant with the zone's offset.                                         *)
(***************************************************************************)
EXTENDS Integers, Sequences, FiniteSets, TLC

VARIABLES
    input,      \* argument of the function under study (pure-function specifications)
    output,     \* what the function returned, NoValue before the call
    stage,      \* position of the pure-function specifications
    pc,         \* position of main(): open, parse, write, done, aborted
    courses,    \* parse_from_file: the Vec<Course> pushed so far
    cur,        \* parse_from_file: the course of the current loop iteration, or NoValue
    prev,       \* parse_from_file: `prev`, None or Some(class)
    doc,        \* per course read, the row-chunks its classes were built from
    failure,    \* where the run panicked, NoValue while it has not
    calendar,   \* create_calendar: the events pushed, in order
    file,       \* the output file: NoValue while it does not exist, else its content
    stdout      \* what was written to standard output, NoValue if nothing

vars ==
    <<input, output, stage, pc, courses, cur, prev, doc, failure, calendar, file, stdout>>

NoValue == [none |-> TRUE]

----------------------------------------------------------------------------
(* Text helpers (std::str)                                                 *)

Digits == <<"0", "1", "2", "3", "4", "5", "6", "7", "8", "9">>

IsDigit(c) == \E i \in 1..Len(Digits) : Digits[i] = c

DigitVal(c) == (CHOOSE i \in 1..Len(Digits) : Digits[i] = c) - 1

\* value of a non-empty all-digit text
RECURSIVE DecValue(_)
DecValue(s) ==
    IF Len(s) = 0 THEN 0
    ELSE 10 * DecValue(SubSeq(s, 1, Len(s) - 1)) + DigitVal(s[Len(s)])

Err == [ok |-> FALSE]

\* str::parse::<u8>(): an optional '+', then one or more digits, value <= u8::MAX
U8Max == 255

ParseU8(s) ==
    LET body == IF Len(s) > 0 /\ s[1] = "+" THEN Tail(s) ELSE s
    IN  IF Len(body) = 0 \/ \E i \in 1..Len(body) : ~IsDigit(body[i]) THEN Err
        ELSE IF DecValue(body) > U8Max THEN Err
        ELSE [ok |-> TRUE, val |-> DecValue(body)]

\* position of the first occurrence of pat in s at or after i, 0 when there is none
RECURSIVE FindFrom(_, _, _)
FindFrom(s, pat, i) ==
    IF i + Len(pat) - 1 > Len(s) THEN 0
    ELSE IF SubSeq(s, i, i + Len(pat) - 1) = pat THEN i
    ELSE FindFrom(s, pat, i + 1)

Find(s, pat) == FindFrom(s, pat, 1)

\* the text before and after the first occurrence of pat (pat occurs in s)
Before(s, pat) == SubSeq(s, 1, Find(s, pat) - 1)
After(s, pat) == SubSeq(s, Find(s, pat) + Len(pat), Len(s))

\* str::split(pat): the first item, and the second item (NoValue when there is none)
SplitFirst(s, pat) == IF Find(s, pat) = 0 THEN s ELSE Before(s, pat)
SplitSecond(s, pat) ==
    IF Find(s, pat) = 0 THEN NoValue ELSE SplitFirst(After(s, pat), pat)

\* position of the first character of s, at or after i, that is one of stops;
\* Len(s) + 1 when there is none
RECURSIVE FirstAtFrom(_, _, _)
FirstAtFrom(s, stops, i) ==
    IF i > Len(s) THEN Len(s) + 1
    ELSE IF s[i] \in stops THEN i
    ELSE FirstAtFrom(s, stops, i + 1)

FirstAt(s, stops) == FirstAtFrom(s, stops, 1)

----------------------------------------------------------------------------
(* parse_time and DateTimeRangeRaw::from_str                               *)

\* every PM hour gets 12 more, 12 AM stays 12
parse_time_NoTwelveRule(s) ==
    LET i == FirstAt(s, {":"})
        hour == ParseU8(SubSeq(s, 1, i - 1))
        rest == SubSeq(s, i + 1, Len(s))
        j == FirstAt(rest, {"A", "P"})
        ap == IF j <= Len(rest) THEN rest[j] ELSE " "
        minute == ParseU8(SubSeq(rest, 1, j - 1))
    IN  IF ~hour.ok THEN Err
        ELSE IF ~minute.ok THEN Err
        ELSE [ok |-> TRUE,
              val |-> <<IF ap = "P" THEN (hour.val + 12) % (U8Max + 1) ELSE hour.val,
                        minute.val>>]

\* take_while consumes the ':' and the 'A' or 'P' it stops at.  hour += 12 is on
\* a u8 (release profile: it wraps; the texts studied keep hour below 244)
parse_time(s) ==
    LET i == FirstAt(s, {":"})
        hour == ParseU8(SubSeq(s, 1, i - 1))
        rest == SubSeq(s, i + 1, Len(s))
        j == FirstAt(rest, {"A", "P"})
        ap == IF j <= Len(rest) THEN rest[j] ELSE " "
        minute == ParseU8(SubSeq(rest, 1, j - 1))
    IN  IF ~hour.ok THEN Err
        ELSE IF ~minute.ok THEN Err
        ELSE LET h1 == IF ap = "P" /\ hour.val # 12
                       THEN (hour.val + 12) % (U8Max + 1) ELSE hour.val
                 h2 == IF ap = "A" /\ h1 = 12 THEN 0 ELSE h1
             IN  [ok |-> TRUE, val |-> <<h2, minute.val>>]

WEEKDAYS == << <<"M", "o">>, <<"T", "u">>, <<"W", "e">>, <<"T", "h">>, <<"F", "r">> >>

Sep == <<" ", "-", " ">>

DateTimeRangeRaw_from_str(s) ==
    LET sp == Find(s, <<" ">>)
        d == IF sp = 0 THEN s ELSE Before(s, <<" ">>)
        pos == {k \in 1..Len(WEEKDAYS) : WEEKDAYS[k] = d}
    IN  IF pos = {} THEN Err
        ELSE IF sp = 0 THEN Err
        ELSE LET time == After(s, <<" ">>)
                 start == SplitFirst(time, Sep)
                 end == SplitSecond(time, Sep)
             IN  IF end = NoValue THEN Err
                 ELSE IF ~parse_time(start).ok THEN Err
                 ELSE IF ~parse_time(end).ok THEN Err
                 ELSE [ok |-> TRUE,
                       val |-> [start |-> parse_time(start).val,
                                end |-> parse_time(end).val,
                                weekday |-> (CHOOSE k \in pos : TRUE) - 1]]

----------------------------------------------------------------------------
(* Texts handed to DateTimeRangeRaw::from_str                              *)

Dec(n) == IF n < 10 THEN <<Digits[n + 1]>> ELSE <<Digits[(n \div 10) + 1], Digits[(n % 10) + 1]>>

Dec2(n) == <<Digits[(n \div 10) + 1], Digits[(n % 10) + 1]>>

\* "<H>:<MM><AM|PM>"
FormatTime(h, m, ap) == Dec(h) \o <<":">> \o Dec2(m) \o <<ap, "M">>

\* "<WD> <H>:<MM><AM|PM> - <H>:<MM><AM|PM>"
FormatRange(p) ==
    WEEKDAYS[p.wd + 1] \o <<" ">> \o FormatTime(p.h1, p.m1, p.ap1)
        \o Sep \o FormatTime(p.h2, p.m2, p.ap2)

MinuteSamples == {0, 30, 59}

WellFormedParts ==
    [wd : 0..4, h1 : 1..12, m1 : MinuteSamples, ap1 : {"A", "P"},
     h2 : 1..12, m2 : MinuteSamples, ap2 : {"A", "P"}]

\* "We 8:30AM - 12:05PM", the text the malformed texts are derived from
BaseRange == FormatRange([wd |-> 2, h1 |-> 8, m1 |-> 30, ap1 |-> "A",
                          h2 |-> 12, m2 |-> 5, ap2 |-> "P"])

EditChars == {"S", "a", "x", "M", "P", ":", " ", "-", "7", "+"}

Deletions(s) == {SubSeq(s, 1, i - 1) \o SubSeq(s, i + 1, Len(s)) : i \in 1..Len(s)}

Substitutions(s) ==
    {[s EXCEPT ![i] = c] : i \in 1..Len(s), c \in EditChars}

Insertions(s) ==
    {SubSeq(s, 1, i) \o <<c>> \o SubSeq(s, i + 1, Len(s)) : i \in 0..Len(s), c \in EditChars}

\* one edit of the base text, and the base text without its AM/PM markers
EditedRanges ==
    Deletions(BaseRange) \cup Substitutions(BaseRange) \cup Insertions(BaseRange)
        \cup {<<"W", "e", " ", "8", ":", "3", "0", " ", "-", " ", "9", ":", "3", "0">>}

\* the shape "<H:MM>AM/PM": one or two digits, ':', two digits, AM or PM
IsTimeShape(t) ==
    LET n == Len(t)
    IN  /\ n \in {6, 7}
        /\ t[n] = "M"
        /\ t[n - 1] \in {"A", "P"}
        /\ IsDigit(t[n - 2]) /\ IsDigit(t[n - 3])
        /\ t[n - 4] = ":"
        /\ \A i \in 1..(n - 5) : IsDigit(t[i])

\* the shape "<2-letter weekday> <H:MM>AM/PM - <H:MM>AM/PM"
IsTimeRangeShape(s) ==
    /\ Len(s) >= 3
    /\ \E k \in 1..Len(WEEKDAYS) : SubSeq(s, 1, 2) = WEEKDAYS[k]
    /\ s[3] = " "
    /\ LET time == SubSeq(s, 4, Len(s))
       IN  /\ Find(time, Sep) # 0
           /\ IsTimeShape(Before(time, Sep))
           /\ IsTimeShape(After(time, Sep))

PipelineIdle ==
    /\ pc = "idle" /\ courses = <<>> /\ cur = NoValue /\ prev = NoValue /\ doc = <<>>
    /\ failure = NoValue
    /\ calendar = NoValue /\ file = NoValue /\ stdout = NoValue

PipelineUnchanged ==
    UNCHANGED <<pc, courses, cur, prev, doc, failure, calendar, file, stdout>>

InitTime ==
    /\ \/ \E p \in WellFormedParts : input = [text |-> FormatRange(p), parts |-> p]
       \/ \E t \in EditedRanges : input = [text |-> t, parts |-> NoValue]
    /\ output = NoValue
    /\ stage = "call"
    /\ PipelineIdle

\* time.parse::<DateTimeRangeRaw>()
ParseTimeRange ==
    /\ stage = "call"
    /\ output' = DateTimeRangeRaw_from_str(input.text)
    /\ stage' = "done"
    /\ UNCHANGED input
    /\ PipelineUnchanged

NextTime == ParseTimeRange

SpecTime == InitTime /\ [][NextTime]_vars

\* the hour of the 24-hour clock that <H><AM|PM> names
Hour24(h, ap) ==
    IF ap = "P" /\ h # 12 THEN h + 12
    ELSE IF ap = "A" /\ h = 12 THEN 0
    ELSE h

\* C1: every well-formed time-range text parses, with weekday = index of WD
\* (Monday = 0) and start and end the 24-hour value of the 12-hour reading:
\* PM adds 12 unless H = 12, 12 AM is 0, the minute is unchanged.
C1_WellFormedParses ==
    (stage = "done" /\ input.parts # NoValue) =>
        /\ output.ok
        /\ output.val.weekday = input.parts.wd
        /\ output.val.start = <<Hour24(input.parts.h1, input.parts.ap1), input.parts.m1>>
        /\ output.val.end = <<Hour24(input.parts.h2, input.parts.ap2), input.parts.m2>>

\* "Th 12:00AM - 1:30PM" was parsed: 12 AM became 0, 1 PM became 13
C1_Witness ==
    /\ stage = "done"
    /\ input.parts # NoValue
    /\ input.parts.wd = 3
    /\ input.parts.h1 = 12 /\ input.parts.ap1 = "A" /\ input.parts.m1 = 0
    /\ input.parts.h2 = 1 /\ input.parts.ap2 = "P" /\ input.parts.m2 = 30
    /\ output.ok
    /\ output.val = [start |-> <<0, 0>>, end |-> <<13, 30>>, weekday |-> 3]

\* C9: a text that is not of the shape
\* "<2-letter weekday> <H:MM>AM/PM - <H:MM>AM/PM" does not parse.
C9_MalformedFails ==
    (stage = "done" /\ ~IsTimeRangeShape(input.text)) => ~output.ok

----------------------------------------------------------------------------
(* Status, Section and Component                                           *)

Status_from_str(s) ==
    IF s = <<"E", "n", "r", "o", "l", "l", "e", "d">> THEN [ok |-> TRUE, val |-> "Enrolled"]
    ELSE IF s = <<"W", "a", "i", "t", "i", "n", "g">> THEN [ok |-> TRUE, val |-> "Waiting"]
    ELSE Err

SectionLimit == 100

\* the failed assert!(number < 100)
Panic == [ok |-> FALSE, panic |-> TRUE]

Section_from_str(s) ==
    IF Len(s) = 0 THEN Err
    ELSE LET number == ParseU8(Tail(s))
         IN  IF ~number.ok THEN Err
             ELSE IF ~(number.val < SectionLimit) THEN Panic
             ELSE [ok |-> TRUE, val |-> [letter |-> Head(s), number |-> number.val]]

Component_from_str(s) ==
    IF s = <<"L", "a", "b", "o", "r", "a", "t", "o", "r", "y">>
        THEN [ok |-> TRUE, val |-> "Laboratory"]
    ELSE IF s = <<"L", "e", "c", "t", "u", "r", "e">> THEN [ok |-> TRUE, val |-> "Lecture"]
    ELSE IF s = <<"T", "u", "t", "o", "r", "i", "a", "l">> THEN [ok |-> TRUE, val |-> "Tutorial"]
    ELSE Err

\* Display for Component
Component_fmt(c) ==
    CASE c = "Laboratory" -> <<"L", "A", "B">>
      [] c = "Lecture" -> <<"L", "E", "C">>
      [] c = "Tutorial" -> <<"T", "U", "T">>

\* Display for Section: "{}{:02}"
Section_fmt(sec) == <<sec.letter>> \o (IF sec.number < 10 THEN Dec2(sec.number) ELSE Dec(sec.number))

\* all texts over alphabet of length at most n
RECURSIVE TextsUpTo(_, _)
TextsUpTo(alphabet, n) ==
    IF n = 0 THEN {<<>>}
    ELSE LET shorter == TextsUpTo(alphabet, n - 1)
         IN  shorter \cup {Append(t, c) : t \in shorter, c \in alphabet}

MaxSectionLen == 4

SectionChars == {"A", "z", "0", "1", "2", "9", "+"}

Letters == {"A", "z"}

InitSection ==
    /\ input \in TextsUpTo(SectionChars, MaxSectionLen)
    /\ output = NoValue
    /\ stage = "call"
    /\ PipelineIdle

\* section.parse::<Section>()
ParseSection ==
    /\ stage = "call"
    /\ output' = Section_from_str(input)
    /\ stage' = "done"
    /\ UNCHANGED input
    /\ PipelineUnchanged

NextSection == ParseSection

SpecSection == InitSection /\ [][NextSection]_vars

\* the shape <letter><1-2 digit number>
IsSectionShape(s) ==
    /\ Len(s) \in {2, 3}
    /\ s[1] \in Letters
    /\ \A i \in 2..Len(s) : IsDigit(s[i])

\* C7: a section text parses exactly when it is a letter followed by a one- or
\* two-digit number, and then yields Section(letter, number).
C7_SectionShape ==
    stage = "done" =>
        /\ output.ok <=> IsSectionShape(input)
        /\ output.ok =>
            output.val = [letter |-> input[1], number |-> DecValue(Tail(input))]

----------------------------------------------------------------------------
(* The location cell: location.splitn(2, " (") and replace(')', "")        *)

OpenParen == <<" ", "(">>

RemoveAll(s, c) == SelectSeq(s, LAMBDA x : x # c)

SplitLocation(s) ==
    IF Find(s, OpenParen) = 0 THEN Err
    ELSE [ok |-> TRUE,
          val |-> [address |-> Before(s, OpenParen),
                   location |-> RemoveAll(After(s, OpenParen), ")")]]

MaxLocationLen == 5

LocationChars == {"S", "1", " ", "(", ")"}

InitLocation ==
    /\ input \in TextsUpTo(LocationChars, MaxLocationLen)
    /\ output = NoValue
    /\ stage = "call"
    /\ PipelineIdle

ParseLocation ==
    /\ stage = "call"
    /\ output' = SplitLocation(input)
    /\ stage' = "done"
    /\ UNCHANGED input
    /\ PipelineUnchanged

NextLocation == ParseLocation

SpecLocation == InitLocation /\ [][NextLocation]_vars

StripTrailingParen(r) ==
    IF Len(r) > 0 /\ r[Len(r)] = ")" THEN SubSeq(r, 1, Len(r) - 1) ELSE r

\* C8: with " (" in the text, the address is what precedes its first occurrence
\* and the room is what follows it less only a trailing ")"; without " (" the
\* split fails.
C8_LocationSplit ==
    stage = "done" =>
        IF Find(input, OpenParen) = 0 THEN ~output.ok
        ELSE /\ output.ok
             /\ output.val.address = Before(input, OpenParen)
             /\ output.val.location = StripTrailingParen(After(input, OpenParen))

----------------------------------------------------------------------------
(* Dates and the zone America/Toronto.  The calendar modelled is the year  *)
(* 2024; day 0 is Monday 2024-01-01.  An instant is a number of minutes    *)
(* since 2024-01-01T00:00Z.                                                *)

DaysInMonth == <<31, 29, 31, 30, 31, 30, 31, 31, 30, 31, 30, 31>>

RECURSIVE DaysBefore(_)
DaysBefore(m) == IF m = 1 THEN 0 ELSE DaysBefore(m - 1) + DaysInMonth[m - 1]

\* day number of a NaiveDate of 2024
DayNumber(date) == DaysBefore(date.m) + date.d - 1

ModelYear == <<"2", "0", "2", "4">>

\* NaiveDate::parse_from_str(s, "%m/%d/%Y"), for dates of the modelled year
ParseDate(s) ==
    LET slash == <<"/">>
        mm == SplitFirst(s, slash)
        dd == SplitSecond(s, slash)
    IN  IF dd = NoValue THEN Err
        ELSE LET yyyy == After(After(s, slash), slash)
                 m == ParseU8(mm)
                 d == ParseU8(dd)
             IN  IF Find(After(s, slash), slash) = 0 THEN Err
                 ELSE IF ~m.ok \/ ~d.ok \/ yyyy # ModelYear THEN Err
                 ELSE IF m.val \notin 1..12 THEN Err
                 ELSE IF d.val \notin 1..DaysInMonth[m.val] THEN Err
                 ELSE [ok |-> TRUE, val |-> [m |-> m.val, d |-> d.val]]

DayMinutes == 24 * 60

\* TZ: daylight time from 2024-03-10T07:00Z (day 69) to 2024-11-03T06:00Z (day 307)
DstStartUtc == 69 * DayMinutes + 7 * 60
DstEndUtc == 307 * DayMinutes + 6 * 60

\* the zone's offset from UTC at an instant, in minutes
UtcOffset(u) == IF DstStartUtc <= u /\ u < DstEndUtc THEN -(4 * 60) ELSE -(5 * 60)

\* naive_local(): the local clock reading of an instant, as minutes
ToLocal(u) == u + UtcOffset(u)

\* TZ.from_local_datetime(l): the instants whose local reading is l
FromLocal(l) == {u \in {l + 4 * 60, l + 5 * 60} : ToLocal(u) = l}

\* Option<DateTime<Tz>>
None == [some |-> FALSE]
Some(u) == [some |-> TRUE, val |-> u]

\* LocalResult::single()
Single(set) == IF Cardinality(set) = 1 THEN Some(CHOOSE u \in set : TRUE) ELSE None

LocalDate(u) == ToLocal(u) \div DayMinutes

\* Datelike::weekday().num_days_from_monday()
Weekday(u) == LocalDate(u) % 7

\* DateTime<Tz>::with_hour and with_minute: the local reading with one field
\* replaced, mapped back to the zone; None when the field is out of range or the
\* reading does not exist or is ambiguous in the zone
with_hour(dt, h) ==
    IF h > 23 THEN None
    ELSE Single(FromLocal(LocalDate(dt) * DayMinutes + h * 60 + (ToLocal(dt) % 60)))

with_minute(dt, m) ==
    IF m > 59 THEN None
    ELSE Single(FromLocal(ToLocal(dt) - (ToLocal(dt) % 60) + m))

\* with_second(0) and with_nanosecond(0): the reading is unchanged (instants carry
\* whole minutes) and is mapped back to the zone like the others
with_second_zero(dt) == Single(FromLocal(ToLocal(dt)))

\* the four with_* calls on start (and on end), each unwrapped
SetClock(dt, hm) ==
    LET a == with_hour(dt, hm[1])
        b == IF a.some THEN with_minute(a.val, hm[2]) ELSE None
        c == IF b.some THEN with_second_zero(b.val) ELSE None
    IN  IF c.some THEN with_second_zero(c.val) ELSE None

days_to_add(curr_weekday, weekday) ==
    IF curr_weekday > weekday THEN 7 - curr_weekday + weekday
    ELSE weekday - curr_weekday

\* DateTime<Tz> + Duration::days(n): n times 24 hours later
AddDays(dt, n) == dt + n * DayMinutes

into_datetime_range(raw, first_day) ==
    LET start == SetClock(first_day, raw.start)
        end == SetClock(first_day, raw.end)
    IN  IF ~start.some \/ ~end.some THEN Panic
        ELSE LET n == days_to_add(Weekday(start.val), raw.weekday)
             IN  [ok |-> TRUE,
                  val |-> [start |-> AddDays(start.val, n), end |-> AddDays(end.val, n)]]

\* TZ.from_utc_datetime(date at 00:00:00) + Duration::hours(4)
AnchorOf(date) == DayNumber(date) * DayMinutes + 4 * 60

----------------------------------------------------------------------------
(* Anchoring a class meeting to its start date                             *)

Dates == {[m |-> m, d |-> d] : m \in 1..12, d \in 1..31} \cap
         {date \in [m : 1..12, d : 1..31] : date.d <= DaysInMonth[date.m]}

\* clock readings of the meetings studied: around midnight, around the zone's
\* transition hours, and in the day
ClockSamples == {<<0, 30>>, <<1, 30>>, <<2, 30>>, <<10, 0>>, <<23, 30>>}

RawSamples ==
    {[start |-> c, end |-> <<c[1], c[2] + 20>>, weekday |-> w] : c \in ClockSamples, w \in 0..4}

InitAnchor ==
    /\ input \in [date : Dates, raw : RawSamples]
    /\ output = NoValue
    /\ stage = "call"
    /\ PipelineIdle

\* let start = TZ.from_utc_datetime(..) + Duration::hours(4)
BuildAnchor ==
    /\ stage = "call"
    /\ output' = [first_day |-> AnchorOf(input.date)]
    /\ stage' = "anchor"
    /\ UNCHANGED input
    /\ PipelineUnchanged

\* time.into_datetime_range(start)
AnchorRange ==
    /\ stage = "anchor"
    /\ output' = [first_day |-> output.first_day,
                  time |-> into_datetime_range(input.raw, output.first_day)]
    /\ stage' = "done"
    /\ UNCHANGED input
    /\ PipelineUnchanged

NextAnchor == BuildAnchor \/ AnchorRange

SpecAnchor == InitAnchor /\ [][NextAnchor]_vars

\* the least number of days from weekday c to weekday t
DaysUntil(c, t) == IF c <= t THEN t - c ELSE 7 - c + t

\* C2: start and end are advanced by the same number of days d, the least
\* non-negative number of days from the anchor's weekday to the target weekday;
\* 0 <= d <= 6, the resulting date falls on the target weekday and is not before
\* the anchor's date.
C2_FirstOccurrence ==
    (stage = "done" /\ output.time.ok) =>
        LET c == Weekday(output.first_day)
            t == input.raw.weekday
            d == DaysUntil(c, t)
        IN  /\ d \in 0..6
            /\ LocalDate(output.time.val.start) = LocalDate(output.first_day) + d
            /\ LocalDate(output.time.val.end) = LocalDate(output.first_day) + d
            /\ Weekday(output.time.val.start) = t
            /\ LocalDate(output.time.val.start) >= LocalDate(output.first_day)

\* C10: the anchor lies on the calendar date written in the cell, in daylight
\* and in standard time, so the anchored start is never on an earlier date.
C10_AnchorOnStartDate ==
    /\ stage \in {"anchor", "done"} =>
        LocalDate(output.first_day) = DayNumber(input.date)
    /\ (stage = "done" /\ output.time.ok) =>
        LocalDate(output.time.val.start) >= DayNumber(input.date)

----------------------------------------------------------------------------
(* The cells of the document                                               *)

\* the text of a cell without a <span>: the one character U+00A0
NBSP == <<"nbsp">>

StatusCells ==
    {<<"E", "n", "r", "o", "l", "l", "e", "d">>, <<"W", "a", "i", "t", "i", "n", "g">>,
     <<"D", "r", "o", "p", "p", "e", "d">>}

\* "CSI2110 - DS", and a title without " - "
TitleTexts ==
    {<<"C", "S", "I", "2", "1", "1", "0", " ", "-", " ", "D", "S">>,
     <<"C", "S", "I", "2", "1", "1", "0">>}

SectionCells == {NBSP, <<"A", "0", "0">>, <<"B", "0", "1">>, <<"A", "1", "0", "0">>}

ComponentCells ==
    {NBSP, <<"L", "e", "c", "t", "u", "r", "e">>, <<"T", "u", "t", "o", "r", "i", "a", "l">>,
     <<"S", "e", "m", "i", "n", "a", "r">>}

\* "Mo 10:00AM - 11:20AM" and "Sa 10:00AM - 11:20AM"
TimeCells ==
    {FormatRange([wd |-> 0, h1 |-> 10, m1 |-> 0, ap1 |-> "A", h2 |-> 11, m2 |-> 20, ap2 |-> "A"]),
     <<"S", "a", " ", "1", "0", ":", "0", "0", "A", "M", " ", "-", " ",
       "1", "1", ":", "2", "0", "A", "M">>}

\* "STE (H0104)" and "Online"
LocationCells ==
    {<<"S", "T", "E", " ", "(", "H", "0", "1", "0", "4", ")">>,
     <<"O", "n", "l", "i", "n", "e">>}

InstructorCells == {<<"S", "m", "i", "t", "h">>}

\* "09/04/2024 - 12/03/2024" and "TBA"
DateCells ==
    {<<"0", "9", "/", "0", "4", "/", "2", "0", "2", "4", " ", "-", " ",
       "1", "2", "/", "0", "3", "/", "2", "0", "2", "4">>,
     <<"T", "B", "A">>}

\* whether the closure of parse_from_file can fail on this cell alone
BadCell(name, text) ==
    CASE name = "section" -> text # NBSP /\ ~Section_from_str(text).ok
      [] name = "component" -> text # NBSP /\ ~Component_from_str(text).ok
      [] name = "time" -> ~DateTimeRangeRaw_from_str(text).ok
      [] name = "location" -> ~SplitLocation(text).ok
      [] name = "start_end" -> Find(text, Sep) = 0

CellNames == {"section", "component", "time", "location", "start_end"}

ChunkFaults(c) == {n \in CellNames : BadCell(n, c[n])}

\* the row-chunks read: any cells, at most one of them unparsable
ChunkInputs ==
    {c : c \in {x \in [section : SectionCells, component : ComponentCells, time : TimeCells,
                       location : LocationCells, instructor : InstructorCells,
                       start_end : DateCells] : Cardinality(ChunkFaults(x)) <= 1}}

\* a course's header: the grid rows found under the group, the status cell, the
\* title; at most one of them is not as the export writes it
HeaderFaults(h) ==
    {n \in {"rows", "status", "title"} :
        \/ n = "rows" /\ h.rows < 2
        \/ n = "status" /\ ~Status_from_str(h.status).ok
        \/ n = "title" /\ Find(h.title, Sep) = 0}

HeaderInputs ==
    {h : h \in {x \in [rows : 0..2, status : StatusCells, title : TitleTexts] :
                    Cardinality(HeaderFaults(x)) <= 1}}

----------------------------------------------------------------------------
(* parse_from_file: the closure that builds a Class from a row-chunk       *)

Fail(step) == [ok |-> FALSE, step |-> step]

\* what the closure parses out of the cells themselves; a blank section or
\* component cell is left to previous
ParseCells(c) ==
    [section |-> IF c.section = NBSP THEN NoValue ELSE Section_from_str(c.section),
     component |-> IF c.component = NBSP THEN NoValue ELSE Component_from_str(c.component),
     time |-> DateTimeRangeRaw_from_str(c.time),
     room |-> SplitLocation(c.location),
     start |-> ParseDate(SplitFirst(c.start_end, Sep)),
     end |-> IF SplitSecond(c.start_end, Sep) = NoValue THEN Err
             ELSE ParseDate(SplitSecond(c.start_end, Sep))]

\* the closure, in the order of its unwraps
Closure(c, p, previous) ==
    LET section == IF p.section = NoValue
                   THEN (IF previous = NoValue THEN Err ELSE [ok |-> TRUE, val |-> previous.section])
                   ELSE p.section
        component == IF p.component = NoValue
                     THEN (IF previous = NoValue THEN Err
                           ELSE [ok |-> TRUE, val |-> previous.component])
                     ELSE p.component
    IN  IF ~section.ok THEN Fail("section")
        ELSE IF ~component.ok THEN Fail("component")
        ELSE IF ~p.time.ok THEN Fail("time")
        ELSE IF ~p.room.ok THEN Fail("location")
        ELSE IF ~p.start.ok THEN Fail("start")
        ELSE IF ~p.end.ok THEN Fail("end")
        ELSE LET range == into_datetime_range(p.time.val, AnchorOf(p.start.val))
             IN  IF ~range.ok THEN Fail("into_datetime_range")
                 ELSE [ok |-> TRUE,
                       val |-> [section |-> section.val,
                                component |-> component.val,
                                time |-> range.val,
                                location |-> p.room.val.location,
                                address |-> p.room.val.address,
                                instructor |-> c.instructor,
                                end |-> AnchorOf(p.end.val)]]

BuildClass(c, previous) == Closure(c, ParseCells(c), previous)

\* the row-chunks read, each with what its cells parse to
ParsedChunkInputs == {[cells |-> c, parsed |-> ParseCells(c)] : c \in ChunkInputs}

----------------------------------------------------------------------------
(* main: parse_from_file, create_calendar, the write of the output         *)

\* the size of the document: its courses plus its row-chunks
MaxRecords == 5

RECURSIVE SumLen(_)
SumLen(seqs) == IF seqs = <<>> THEN 0 ELSE Len(Head(seqs)) + SumLen(Tail(seqs))

ChunksRead == SumLen(doc)

\* the courses begun and the row-chunks parsed so far
RecordsRead == Len(doc) + ChunksRead

Init ==
    /\ input = NoValue /\ output = NoValue /\ stage = "run"
    /\ pc = "open"
    /\ courses = <<>>
    /\ cur = NoValue
    /\ prev = NoValue
    /\ doc = <<>>
    /\ failure = NoValue
    /\ calendar = NoValue
    /\ file = NoValue
    /\ stdout = NoValue

PureUnchanged == UNCHANGED <<input, output, stage>>

\* a failed unwrap() or assert!: the process ends and what it held is gone; failure
\* tells where: the step, the course and row-chunk (counted from 1, 0 before the
\* first), the status of the course, the cells of the row-chunk, and how many
\* classes the run had built
Abort(step, chunk, cells) ==
    /\ pc' = "aborted"
    /\ failure' = [step |-> step,
                   course |-> Len(doc),
                   chunk |-> chunk,
                   status |-> IF cur = NoValue THEN "" ELSE cur.status,
                   cells |-> cells,
                   built |-> ChunksRead]
    /\ courses' = <<>>
    /\ cur' = NoValue
    /\ prev' = NoValue
    /\ doc' = <<>>
    /\ UNCHANGED <<calendar, file, stdout>>
    /\ PureUnchanged

\* the output file after File::create(output)
CreatedFile == [content |-> <<>>]

OpenDocument_CreatesOutput ==
    /\ pc = "open"
    /\ \E readable \in BOOLEAN :
        IF readable
        THEN /\ pc' = "parse"
             /\ file' = CreatedFile
             /\ UNCHANGED <<courses, cur, prev, doc, failure, calendar, stdout>>
             /\ PureUnchanged
        ELSE Abort("open", 0, NoValue)

\* File::open(path) and Document::from_read
OpenDocument ==
    /\ pc = "open"
    /\ \E readable \in BOOLEAN :
        IF readable
        THEN /\ pc' = "parse"
             /\ UNCHANGED <<courses, cur, prev, doc, failure, calendar, file, stdout>>
             /\ PureUnchanged
        ELSE Abort("open", 0, NoValue)

InitialPrev_Kept(previous) == previous

\* let mut prev = None::<Class>, once per course
InitialPrev(previous) == NoValue

\* the head of one iteration of `for node in document.find(..)`: status, title,
\* the row of cells, prev
BeginCourse ==
    /\ pc = "parse"
    /\ cur = NoValue
    /\ RecordsRead < MaxRecords
    /\ \E h \in HeaderInputs :
        IF h.rows = 0 THEN Abort("rows", 0, NoValue)
        ELSE IF ~Status_from_str(h.status).ok THEN Abort("status", 0, NoValue)
        ELSE IF Find(h.title, Sep) = 0 THEN Abort("title", 0, NoValue)
        ELSE IF h.rows < 2 THEN Abort("rows", 0, NoValue)
        ELSE /\ cur' = [name |-> SplitSecond(h.title, Sep),
                        code |-> SplitFirst(h.title, Sep),
                        status |-> Status_from_str(h.status).val,
                        classes |-> <<>>]
             /\ prev' = InitialPrev(prev)
             /\ doc' = Append(doc, <<>>)
             /\ UNCHANGED <<pc, courses, failure, calendar, file, stdout>>
             /\ PureUnchanged

RememberPrev_First(previous, class) == IF previous = NoValue THEN class ELSE previous

\* prev = Some(class.clone())
RememberPrev(previous, class) == class

\* one call of the closure, over the next row-chunk of the course
ParseChunk ==
    /\ pc = "parse"
    /\ cur # NoValue
    /\ RecordsRead < MaxRecords
    /\ \E in \in ParsedChunkInputs :
        LET c == in.cells
            built == Closure(c, in.parsed, prev)
        IN  IF ~built.ok
            THEN Abort(built.step, Len(cur.classes) + 1, c)
            ELSE /\ cur' = [cur EXCEPT !.classes = Append(@, built.val)]
                 /\ prev' = RememberPrev(prev, built.val)
                 /\ doc' = [doc EXCEPT ![Len(doc)] = Append(@, c)]
                 /\ UNCHANGED <<pc, courses, failure, calendar, file, stdout>>
                 /\ PureUnchanged

\* courses.push(Course { .. }) at the end of the iteration
EndCourse ==
    /\ pc = "parse"
    /\ cur # NoValue
    /\ courses' = Append(courses, cur)
    /\ cur' = NoValue
    /\ UNCHANGED <<pc, prev, doc, failure, calendar, file, stdout>>
    /\ PureUnchanged

----------------------------------------------------------------------------
(* create_calendar                                                         *)

Emits_All(course) == TRUE

\* if matches!(course.status, Status::Waiting) { continue; }
Emits(course) == course.status # "Waiting"

Event(course, class) ==
    [summary |-> class.location \o <<" ", "(">> \o Component_fmt(class.component)
                    \o <<")", " ">> \o course.code,
     starts |-> ToLocal(class.time.start),
     ends |-> ToLocal(class.time.end),
     location |-> class.address \o <<",", " ", "O", "t", "t", "a", "w", "a", ",", " ", "O", "N", ",", " ", "C", "a", "n", "a", "d", "a">>,
     description |-> <<"N", "a", "m", "e", ":", " ">> \o course.name \o <<" ", "|", " ", "S", "e", "c", "t", "i", "o", "n", ":", " ">> \o Section_fmt(class.section)
                        \o <<" ", "|", " ", "I", "n", "s", "t", "r", "u", "c", "t", "o", "r", ":", " ">> \o class.instructor,
     rrule_until |-> class.end]

\* the events of one course, in class order
RECURSIVE ClassEvents(_, _)
ClassEvents(course, classes) ==
    IF classes = <<>> THEN <<>>
    ELSE <<Event(course, Head(classes))>> \o ClassEvents(course, Tail(classes))

RECURSIVE create_calendar(_)
create_calendar(cs) ==
    IF cs = <<>> THEN <<>>
    ELSE (IF Emits(Head(cs)) THEN ClassEvents(Head(cs), Head(cs).classes) ELSE <<>>)
            \o create_calendar(Tail(cs))

\* no group divider is left: parse_from_file returns courses, and main hands them
\* to create_calendar
CreateCalendar ==
    /\ pc = "parse"
    /\ cur = NoValue
    /\ calendar' = create_calendar(courses)
    /\ pc' = "write"
    /\ UNCHANGED <<courses, cur, prev, doc, failure, file, stdout>>
    /\ PureUnchanged

\* Args.output is Some(path): File::create(output) and write!; it is None: write!
\* to standard output
WriteOutput ==
    /\ pc = "write"
    /\ \/ /\ file' = [content |-> calendar]
          /\ UNCHANGED stdout
       \/ /\ stdout' = [content |-> calendar]
          /\ UNCHANGED file
    /\ pc' = "done"
    /\ UNCHANGED <<courses, cur, prev, doc, failure, calendar>>
    /\ PureUnchanged

Next ==
    \/ OpenDocument
    \/ BeginCourse
    \/ ParseChunk
    \/ EndCourse
    \/ CreateCalendar
    \/ WriteOutput

Spec == Init /\ [][Next]_vars

----------------------------------------------------------------------------
(* Properties of the run                                                   *)

\* the classes built for the k-th course read
ClassesOf(k) == IF k <= Len(courses) THEN courses[k].classes ELSE cur.classes

\* C3: within a course, a row-chunk after the first with a blank section cell
\* has the section of the row-chunk before it, and likewise, independently, for
\* the component; a cell that is written out resolves to its own value, so a run
\* of blank cells resolves to the most recent value that was written out.
C3_Inheritance ==
    \A k \in 1..Len(doc) : \A i \in 1..Len(doc[k]) :
        LET cells == doc[k][i]
            classes == ClassesOf(k)
        IN  /\ IF cells.section = NBSP
               THEN i > 1 /\ classes[i].section = classes[i - 1].section
               ELSE classes[i].section = Section_from_str(cells.section).val
            /\ IF cells.component = NBSP
               THEN i > 1 /\ classes[i].component = classes[i - 1].component
               ELSE classes[i].component = Component_from_str(cells.component).val

\* A00 Lecture, then B01 with a blank component, then blank and blank: the third
\* class is B01 Lecture
C3_Witness ==
    /\ Len(doc) = 1 /\ Len(doc[1]) = 3
    /\ doc[1][1].section = <<"A", "0", "0">> /\ doc[1][1].component = <<"L", "e", "c", "t", "u", "r", "e">>
    /\ doc[1][2].section = <<"B", "0", "1">> /\ doc[1][2].component = NBSP
    /\ doc[1][3].section = NBSP /\ doc[1][3].component = NBSP
    /\ ClassesOf(1)[3].section = [letter |-> "B", number |-> 1]
    /\ ClassesOf(1)[3].component = "Lecture"

\* C4: in every course, the first included, no Class is built from a first
\* row-chunk whose section or component cell is blank: the run aborts there;
\* prev is empty when a course's first row-chunk is read.
C4_FirstChunkExplicit ==
    /\ \A k \in 1..Len(doc) :
        Len(doc[k]) >= 1 => doc[k][1].section # NBSP /\ doc[k][1].component # NBSP
    /\ (pc = "parse" /\ cur # NoValue /\ cur.classes = <<>>) => prev = NoValue
    /\ (pc = "aborted" /\ failure.chunk = 1 /\ failure.cells.section = NBSP) =>
        failure.step = "section"
    /\ (pc = "aborted" /\ failure.chunk = 1 /\ failure.cells.section # NBSP
            /\ failure.cells.component = NBSP) =>
        failure.step \in {"section", "component"}

\* the run aborted on the blank section cell of the first row-chunk of the second
\* course, the first course having a class
C4_Witness ==
    /\ pc = "aborted"
    /\ failure.course = 2 /\ failure.chunk = 1
    /\ failure.built >= 1
    /\ failure.step = "section"
    /\ failure.cells.section = NBSP

RECURSIVE EmittedBefore(_)
\* the number of classes of the Enrolled courses before the k-th
EmittedBefore(k) ==
    IF k = 1 THEN 0
    ELSE EmittedBefore(k - 1)
            + (IF courses[k - 1].status = "Enrolled" THEN Len(courses[k - 1].classes) ELSE 0)

\* C5: the calendar holds one event per Class of every Enrolled course, in course
\* order then class order, and none for a Class of a Waiting course.
C5_EnrolledOnly ==
    pc \in {"write", "done"} =>
        /\ Len(calendar) = EmittedBefore(Len(courses) + 1)
        /\ \A k \in 1..Len(courses) :
            courses[k].status = "Enrolled" =>
                \A i \in 1..Len(courses[k].classes) :
                    calendar[EmittedBefore(k) + i] = Event(courses[k], courses[k].classes[i])

\* a Waiting course of two classes, then an Enrolled course of one: one event
C5_Witness ==
    /\ pc = "done"
    /\ Len(courses) = 2
    /\ courses[1].status = "Waiting" /\ Len(courses[1].classes) = 2
    /\ courses[2].status = "Enrolled" /\ Len(courses[2].classes) = 1
    /\ Len(calendar) = 1

\* C6: output exists (the file is created, or standard output written) only once
\* every course and row-chunk read has parsed; a run that aborted left no output.
C6_AllOrNothing ==
    /\ (file # NoValue \/ stdout # NoValue) =>
        /\ pc = "done"
        /\ failure = NoValue
        /\ cur = NoValue
        /\ Len(courses) = Len(doc)
        /\ \A k \in 1..Len(doc) : Len(courses[k].classes) = Len(doc[k])
    /\ pc = "aborted" => file = NoValue /\ stdout = NoValue

\* the run aborted on the second row-chunk of a Waiting course, the first having
\* parsed: no output
C6_Witness ==
    /\ pc = "aborted"
    /\ failure.status = "Waiting"
    /\ failure.chunk = 2
    /\ file = NoValue /\ stdout = NoValue

====
